---- MODULE Spec2Model ----
(***************************************************************************)
(* State-machine model of codeAgentFunction (src/src/inngest/functions.ts):*)
(* the coding-agent network (router, agent step, onResponse hook), the     *)
(* four sandbox tools, and the result finalization.                        *)
(*                                                                         *)
(* JavaScript values are represented as follows.                           *)
(*   - an optional value (undefined / null or a value) is a sequence of    *)
(*     length 0 or 1: None or Some(v);                                     *)
(*   - a plain object used as a map is a function whose DOMAIN is its key  *)
(*     set;                                                                *)
(*   - strings are strings, so that String.includes is a real substring    *)
(*     search.                                                             *)
(***************************************************************************)
EXTENDS Integers, Sequences, FiniteSets, TLC

VARIABLES
    pc,          \* position of codeAgentFunction / network.run
    iteration,   \* number of agent steps the network has run
    summary,     \* network.state.data.summary : None or Some(text)
    files,       \* network.state.data.files   : None or Some(map)
    sandboxFs,   \* the sandbox file system    : map path -> content
    lastText,    \* lastAssistantTextMessageContent(result) of the step
    pending,     \* tool calls of the current step not yet handled
    toolResult,  \* value returned by the last tool handler of the step
    isError,     \* const isError (None until computed)
    sandboxUrl,  \* result of the get-sandbox-url step
    message,     \* the record created by prisma.message.create
    retval,      \* the value returned by codeAgentFunction
    call,        \* which handler produced toolResult, and how its sandbox I/O went
    calls        \* createOrUpdateFiles handlers in flight (concurrent dispatch)

vars == << pc, iteration, summary, files, sandboxFs, lastText, pending,
           toolResult, isError, sandboxUrl, message, retval, call, calls >>

----------------------------------------------------------------------------
(* Bounds of the model *)

\* longest `files` argument of createOrUpdateFiles / readFiles
MaxBatch == 2
\* most tool calls one agent step requests
MaxCalls == 1
\* most executions of one createOrUpdateFiles call by the step substrate
MaxRuns == 2

(* Program constants *)

\* createNetwork({ maxIter: 15 })
maxIter == 15

Marker == "<task_summary>"
FailureText == "Something went wrong . Please try again"
UrlUnavailable == "URL unavailable"

----------------------------------------------------------------------------
(* Values *)

None == << >>
Some(v) == << v >>
IsSet(o) == o # None
Val(o) == o[1]

EmptyMap == [p \in {} |-> ""]

\* path strings the agent may name; "error" is an ordinary path string
Paths == {"a.txt", "error"}
\* file contents; "" is a legal content
Contents == {"", "x"}
\* what a sandbox operation throws
Errs == {"Error: sandbox"}
\* hosts sandbox.getHost(3000) may return
Hosts == {"3000-sbx.e2b.app"}
\* last assistant text of an agent step: None when the step produced no text
Texts == { "", "working", "<task_summary", "<Task_Summary>",
           "<task_summary>ok</task_summary>",
           "v2 <task_summary>" }
TextOpts == {None} \cup {Some(t) : t \in Texts}

Entries == [path : Paths, content : Contents]
SeqsUpTo(S, n) == UNION {[1..k -> S] : k \in 0..n}
Batches == SeqsUpTo(Entries, MaxBatch)
\* the `files` arguments of readFiles
PathLists == SeqsUpTo(Paths, MaxBatch)

\* variant: obj[key] += value
Put_Append(m, k, v) ==
    [p \in (DOMAIN m) \cup {k} |->
        IF p = k THEN (IF k \in DOMAIN m THEN m[k] \o v ELSE v) ELSE m[p]]

\* obj[key] = value  (assignment to a property of a plain object)
Put(m, k, v) == [p \in (DOMAIN m) \cup {k} |-> IF p = k THEN v ELSE m[p]]

\* s.includes(sub)
Includes(s, sub) ==
    \E i \in 1..(Len(s) - Len(sub) + 1) : SubSeq(s, i, i + Len(sub) - 1) = sub

\* JavaScript truthiness of a string
Truthy(s) == s # ""

----------------------------------------------------------------------------
(* Tool results *)

ToolResult(tool, kind, str, obj, names) ==
    [tool |-> tool, kind |-> kind, str |-> str, obj |-> obj, names |-> names]
NoResult == ToolResult("", "none", "", EmptyMap, {})
StringResult(tool, s) == ToolResult(tool, "string", s, EmptyMap, {})
ObjectResult(tool, o) == ToolResult(tool, "object", "", o, {})
ArrayResult(tool, ns) == ToolResult(tool, "array", "", EmptyMap, ns)

\* { error: msg }
ErrorObject(msg) == [k \in {"error"} |-> msg]
\* the result is an object with an `error` property
HasErrorField(r) == r.kind = "object" /\ "error" \in DOMAIN r.obj
\* newFiles.error of an object: "" stands for undefined (both are falsy)
ErrorProp(o) == IF "error" \in DOMAIN o THEN o["error"] ELSE ""

----------------------------------------------------------------------------
(* terminal handler, lines 71-92 *)

\* result.stdout || buffers.stdout, or the formatted error string of the catch
TerminalReturn(threw, e, resultStdout, bufStdout, bufStderr) ==
    IF threw
    THEN "Command failed: " \o e \o "\nstdout: " \o bufStdout
                                 \o "\nstderr: " \o bufStderr
    ELSE IF Truthy(resultStdout) THEN resultStdout ELSE bufStdout

----------------------------------------------------------------------------
(* createOrUpdateFiles handler, lines 105-138 *)

\* the loop of lines 116-119 run over the first n entries of the batch,
\* applied to a map (the object updatedFiles, or the sandbox file system)
RECURSIVE Writes(_, _, _)
Writes(m, batch, n) ==
    IF n = 0 THEN m
    ELSE Put(Writes(m, batch, n - 1), batch[n].path, batch[n].content)

\* number of entries written before the body of the step stops:
\* connects = FALSE: getSandbox throws; failAt = i > 0: write i throws
WritesDone(batch, connects, failAt) ==
    IF ~connects THEN 0
    ELSE IF failAt = 0 THEN Len(batch) ELSE failAt - 1
Threw(connects, failAt) == ~connects \/ failAt # 0

\* const updatedFiles = network?.state?.data?.files || {}   (line 113)
UpdatedFilesInit(fs) == IF IsSet(fs) THEN Val(fs) ELSE EmptyMap

\* variant: const updatedFiles = {}, so the callback returns the batch alone
NewFiles_Fresh(fs, batch, connects, failAt, e) ==
    IF Threw(connects, failAt)
    THEN ErrorObject("Error: " \o e)
    ELSE Writes(EmptyMap, batch, Len(batch))

\* the value of newFiles: what the step callback returns (lines 121, 124)
NewFiles(fs, batch, connects, failAt, e) ==
    IF Threw(connects, failAt)
    THEN ErrorObject("Error: " \o e)
    ELSE Writes(UpdatedFilesInit(fs), batch, Len(batch))

\* the condition of lines 129-133; step and network.state.data are defined
MergeCondition(newFiles) == ~Truthy(ErrorProp(newFiles))

\* network.state.data.files after the handler.
\* memoized = FALSE: the step callback ran in this invocation, so updatedFiles
\*   is the very object network.state.data.files refers to whenever files was
\*   set (line 113), and line 118 writes into it.
\* memoized = TRUE: step.run returned the stored result of the callback (the
\*   durable step replayed); the object in network.state.data.files was not
\*   touched by the callback.
FilesAfter(fs, batch, connects, failAt, e, memoized) ==
    LET done     == WritesDone(batch, connects, failAt)
        newFiles == NewFiles(fs, batch, connects, failAt, e)
        touched  == IF IsSet(fs) /\ ~memoized
                    THEN Some(Writes(Val(fs), batch, done))
                    ELSE fs
    IN  IF MergeCondition(newFiles) THEN Some(newFiles) ELSE touched

----------------------------------------------------------------------------
(* readFiles handler, lines 146-168 *)

\* the loop of lines 152-160 over the first n paths: a read of a path the
\* sandbox does not hold, or at a position in failPos, throws
RECURSIVE ReadContents(_, _, _, _, _)
ReadContents(sfs, paths, failPos, e, n) ==
    IF n = 0 THEN EmptyMap
    ELSE Put(ReadContents(sfs, paths, failPos, e, n - 1), paths[n],
             IF paths[n] \in DOMAIN sfs /\ n \notin failPos
             THEN sfs[paths[n]]
             ELSE "Error reading file: " \o e)

\* variant: no inner try around the read, so the first read that throws
\* is caught by the outer catch and ends the loop
ReadFilesReturn_NoInnerTry(sfs, paths, connects, failPos, e) ==
    IF ~connects \/ \E i \in 1..Len(paths) :
                       i \in failPos \/ paths[i] \notin DOMAIN sfs
    THEN ErrorObject("Failed to read files: " \o e)
    ELSE ReadContents(sfs, paths, failPos, e, Len(paths))

ReadFilesReturn(sfs, paths, connects, failPos, e) ==
    IF ~connects
    THEN ErrorObject("Failed to read files: " \o e)
    ELSE ReadContents(sfs, paths, failPos, e, Len(paths))

----------------------------------------------------------------------------
(* listFiles handler, lines 176-187 *)

ListFilesReturn(sfs, ok, e) ==
    IF ok THEN ArrayResult("listFiles", DOMAIN sfs)
    ELSE ObjectResult("listFiles", ErrorObject("Failed to list files: " \o e))

----------------------------------------------------------------------------
(* The run: Init is the state when network.run is entered (line 219).      *)
(* createNetwork is given no defaultState, so state.data is {} : summary   *)
(* and files are both undefined. The sandbox is freshly created (line 52). *)

\* the record of a tool call: the handler, whether getSandbox resolved,
\* whether one of its sandbox operations threw, how many sandbox writes
\* succeeded before that, the paths a readFiles call was asked for, and the
\* paths whose (last) read threw
CallInfo(tool, connected, failed, done, asked, unread) ==
    [tool |-> tool, connected |-> connected, failed |-> failed, done |-> done,
     asked |-> asked, unread |-> unread]
NoCall == CallInfo("", FALSE, FALSE, 0, {}, {})

\* the message / fragment records of lines 240-263
NoFragment == << >>
Message(type, content, fragment) ==
    [type |-> type, content |-> content, fragment |-> fragment]
Fragment(url, fs) == [sandboxUrl |-> url, title |-> "Fragment", files |-> fs]

\* a createOrUpdateFiles handler of a concurrent dispatch, not yet invoked:
\* its position, its `files` argument, the index of the entry the loop is
\* at, and what its local updatedFiles refers to: the object held by
\* network.state.data.files (alias) or an object of its own
IdleCall == [pc |-> "idle", batch |-> << >>, next |-> 1,
             alias |-> FALSE, own |-> EmptyMap]
\* the two tool calls of one agent step
Calls == {"c1", "c2"}

Init ==
    /\ pc = "router"
    /\ iteration = 0
    /\ summary = None
    /\ files = None
    /\ sandboxFs = EmptyMap
    /\ lastText = None
    /\ pending = 0
    /\ toolResult = NoResult
    /\ call = NoCall
    /\ isError = None
    /\ sandboxUrl = None
    /\ message = None
    /\ retval = None
    /\ calls = [c \in Calls |-> IdleCall]

finalVars == << isError, sandboxUrl, message, retval >>
stepVars == << lastText, pending, toolResult, call >>

----------------------------------------------------------------------------
(* Network loop: createNetwork (lines 205-217) and network.run (219) *)

\* variant: a router that always returns codeAgent
RouterStops_NoSummaryCheck(s) == FALSE

\* router, lines 209-216: undefined (stop) when summary is truthy
RouterStops(s) == IsSet(s) /\ Truthy(Val(s))

\* variant: the cap compared off by one
CapReached_OffByOne(n) == n > maxIter

\* variant: the loop left one agent run short of maxIter
CapReached_Early(n) == n >= maxIter - 1

\* maxIter: the network runs no agent once `maxIter` agent runs were made
CapReached(n) == n >= maxIter

\* One evaluation of the loop head: the router is asked first, then the cap.
Router ==
    /\ pc = "router"
    /\ pc' = IF RouterStops(summary) \/ CapReached(iteration)
             THEN "done" ELSE "agent"
    /\ UNCHANGED << iteration, summary, files, sandboxFs, stepVars,
                    finalVars, calls >>

\* codeAgent.run: one inference; its output has a last assistant text (or
\* none) and requests some tool calls
AgentStep ==
    /\ pc = "agent"
    /\ \E t \in TextOpts, n \in 0..MaxCalls :
          /\ lastText' = t
          /\ pending' = n
    /\ pc' = "hook"
    /\ toolResult' = NoResult
    /\ call' = NoCall
    /\ UNCHANGED << iteration, summary, files, sandboxFs, finalVars, calls >>

\* variant: the marker looked for at the start of the text only
SummaryAfterResponse_Prefix(s, t) ==
    IF IsSet(t) /\ Truthy(Val(t)) /\ Len(Val(t)) >= Len(Marker)
                /\ SubSeq(Val(t), 1, Len(Marker)) = Marker
    THEN Some(Val(t)) ELSE s

\* lifecycle.onResponse, lines 191-201
SummaryAfterResponse(s, t) ==
    IF IsSet(t) /\ Truthy(Val(t)) /\ Includes(Val(t), Marker)
    THEN Some(Val(t)) ELSE s

OnResponse ==
    /\ pc = "hook"
    /\ summary' = SummaryAfterResponse(summary, lastText)
    /\ lastText' = None
    /\ pc' = "tools"
    /\ UNCHANGED << iteration, files, sandboxFs, pending, toolResult, call,
                    finalVars, calls >>

\* the value a handler returned is appended to the conversation as the
\* result of its tool call
AppendToolResult ==
    /\ pc = "tools"
    /\ call # NoCall
    /\ toolResult' = NoResult
    /\ call' = NoCall
    /\ UNCHANGED << pc, iteration, summary, files, sandboxFs, lastText,
                    pending, finalVars, calls >>

\* the agent run is over: the network counts it and asks the router again
StepEnd ==
    /\ pc = "tools"
    /\ pending = 0
    /\ call = NoCall
    /\ iteration' = iteration + 1
    /\ pc' = "router"
    /\ UNCHANGED << summary, files, sandboxFs, stepVars, finalVars, calls >>

----------------------------------------------------------------------------
(* Tool handlers, dispatched one at a time by the agent run *)

\* what the onStdout / onStderr callbacks and result.stdout may carry
Outs == {"", "out"}

\* the agent run invokes the requested tools one after the other: a handler
\* is entered when the result of the one before it has been taken
ToolGuard == pc = "tools" /\ pending > 0 /\ call = NoCall

\* variant: getSandbox awaited before the try block
Escapes_ConnectOutsideTry(tool, stage) == stage = "connect"

\* variant: the sandbox operation awaited outside the try block
Escapes_OperationOutsideTry(tool, stage) == stage = "operation"

\* Whether an exception of a sandbox operation leaves the handler. stage is
\* "connect" (getSandbox) or "operation" (commands.run, files.write,
\* files.read, files.list). Every one of these awaits sits inside the try
\* block of its step callback (lines 75-90, 112-125, 148-166, 178-185; a read
\* also inside the inner try of lines 153-159), so none does.
Escapes(tool, stage) == FALSE

\* where the run stands after a handler: an exception that left the handler
\* would reject network.run and with it the function
AfterHandler(tool, connects, opFailed) ==
    IF \/ ~connects /\ Escapes(tool, "connect")
       \/ connects /\ opFailed /\ Escapes(tool, "operation")
    THEN "failed" ELSE "tools"

TerminalCall(connects, runs, e, rs, bs, be) ==
    LET threw == ~connects \/ ~runs
    IN  /\ ToolGuard
        /\ toolResult' =
              StringResult("terminal", TerminalReturn(threw, e, rs, bs, be))
        /\ call' = CallInfo("terminal", connects, threw, 0, {}, {})
        /\ pending' = pending - 1
        /\ pc' = AfterHandler("terminal", connects, ~runs)
        /\ UNCHANGED << iteration, summary, files, sandboxFs, lastText,
                        finalVars, calls >>

Terminal ==
    /\ ToolGuard
    /\ \E connects \in BOOLEAN, e \in Errs :
       \* no callback fires and nothing runs before the sandbox is connected
       \E runs \in (IF connects THEN BOOLEAN ELSE {FALSE}),
          bs \in (IF connects THEN Outs ELSE {""}),
          be \in (IF connects THEN Outs ELSE {""}) :
       \E rs \in (IF runs THEN Outs ELSE {""}) :
          TerminalCall(connects, runs, e, rs, bs, be)

\* variant: sandbox.files.write not awaited, so the handler returns before
\* the sandbox holds the files
CreateOrUpdateFilesCall_WriteNotAwaited(batch, connects, failAt, e, memoized) ==
    /\ ToolGuard
    /\ files' = FilesAfter(files, batch, connects, 0, e, memoized)
    /\ sandboxFs' = sandboxFs
    /\ toolResult' = ObjectResult("createOrUpdateFiles",
                         NewFiles(files, batch, connects, 0, e))
    /\ call' = CallInfo("createOrUpdateFiles", connects, ~connects,
                        0, {}, {})
    /\ pending' = pending - 1
    /\ pc' = AfterHandler("createOrUpdateFiles", connects, FALSE)
    /\ UNCHANGED << iteration, summary, lastText, finalVars, calls >>

CreateOrUpdateFilesCall(batch, connects, failAt, e, memoized) ==
    LET done == WritesDone(batch, connects, failAt)
    IN  /\ ToolGuard
        /\ files' = FilesAfter(files, batch, connects, failAt, e, memoized)
        /\ sandboxFs' = Writes(sandboxFs, batch, done)
        /\ toolResult' = ObjectResult("createOrUpdateFiles",
                             NewFiles(files, batch, connects, failAt, e))
        /\ call' = CallInfo("createOrUpdateFiles", connects,
                            Threw(connects, failAt), done, {}, {})
        /\ pending' = pending - 1
        /\ pc' = AfterHandler("createOrUpdateFiles", connects, failAt # 0)
        /\ UNCHANGED << iteration, summary, lastText, finalVars, calls >>

CreateOrUpdateFiles ==
    /\ ToolGuard
    /\ \E batch \in Batches, connects \in BOOLEAN, e \in Errs,
          memoized \in BOOLEAN :
       \* no write is attempted unless the sandbox is connected
       \E failAt \in (IF connects THEN 0..Len(batch) ELSE {0}) :
          CreateOrUpdateFilesCall(batch, connects, failAt, e, memoized)

\* the positions of `paths` whose read throws
FailedReads(sfs, paths, failPos) ==
    {i \in 1..Len(paths) : i \in failPos \/ paths[i] \notin DOMAIN sfs}

\* the paths whose read threw and was not followed, in the same call, by
\* another read of the same path
Unread(sfs, paths, failPos) ==
    {paths[i] : i \in {k \in FailedReads(sfs, paths, failPos) :
                          \A j \in (k + 1)..Len(paths) : paths[j] # paths[k]}}

\* the paths a readFiles call names
Asked(paths) == {paths[i] : i \in 1..Len(paths)}

\* variant: the contents read are also stored in network.state.data.files
ReadFilesCall_StoresContents(paths, connects, failPos, e) ==
    /\ ToolGuard
    /\ toolResult' = ObjectResult("readFiles",
                         ReadFilesReturn(sandboxFs, paths, connects, failPos, e))
    /\ files' = IF connects
                THEN Some(ReadContents(sandboxFs, paths, failPos, e, Len(paths)))
                ELSE files
    /\ call' = CallInfo("readFiles", connects,
                        ~connects \/ FailedReads(sandboxFs, paths, failPos) # {}, 0,
                        Asked(paths),
                        IF connects THEN Unread(sandboxFs, paths, failPos) ELSE {})
    /\ pending' = pending - 1
    /\ pc' = AfterHandler("readFiles", connects, FALSE)
    /\ UNCHANGED << iteration, summary, sandboxFs, lastText, finalVars, calls >>

ReadFilesCall(paths, connects, failPos, e) ==
    /\ ToolGuard
    /\ toolResult' = ObjectResult("readFiles",
                         ReadFilesReturn(sandboxFs, paths, connects, failPos, e))
    /\ call' = CallInfo("readFiles", connects,
                        ~connects \/ FailedReads(sandboxFs, paths, failPos) # {}, 0,
                        Asked(paths),
                        IF connects THEN Unread(sandboxFs, paths, failPos) ELSE {})
    /\ pending' = pending - 1
    /\ pc' = AfterHandler("readFiles", connects, FALSE)
    /\ UNCHANGED << iteration, summary, files, sandboxFs, lastText,
                    finalVars, calls >>

ReadFiles ==
    /\ ToolGuard
    /\ \E paths \in PathLists, connects \in BOOLEAN, e \in Errs :
       \* no read is attempted unless the sandbox is connected
       \E failPos \in (IF connects THEN SUBSET (1..Len(paths)) ELSE {{}}) :
          ReadFilesCall(paths, connects, failPos, e)

ListFilesCall(connects, lists, e) ==
    /\ ToolGuard
    /\ toolResult' = ListFilesReturn(sandboxFs, connects /\ lists, e)
    /\ call' = CallInfo("listFiles", connects, ~(connects /\ lists), 0, {}, {})
    /\ pending' = pending - 1
    /\ pc' = AfterHandler("listFiles", connects, ~lists)
    /\ UNCHANGED << iteration, summary, files, sandboxFs, lastText,
                    finalVars, calls >>

ListFiles ==
    /\ ToolGuard
    /\ \E connects \in BOOLEAN, e \in Errs :
       \E lists \in (IF connects THEN BOOLEAN ELSE {FALSE}) :
          ListFilesCall(connects, lists, e)

----------------------------------------------------------------------------
(* Result finalization, lines 223-271 *)

\* Object.keys(result.state.data.files || {})
FileKeys(fs) == DOMAIN UpdatedFilesInit(fs)

\* variant: only the summary is looked at
IsErrorOf_SummaryOnly(s, fs) == ~(IsSet(s) /\ Truthy(Val(s)))

\* const isError, lines 223-225
IsErrorOf(s, fs) ==
    \/ ~(IsSet(s) /\ Truthy(Val(s)))
    \/ Cardinality(FileKeys(fs)) = 0

Classify ==
    /\ pc = "done"
    /\ isError' = Some(IsErrorOf(summary, files))
    /\ pc' = "url"
    /\ UNCHANGED << iteration, summary, files, sandboxFs, stepVars,
                    sandboxUrl, message, retval, calls >>

\* step get-sandbox-url, lines 227-236: null when getSandbox / getHost throws
GetSandboxUrl ==
    /\ pc = "url"
    /\ \E ok \in BOOLEAN, host \in Hosts :
          sandboxUrl' = IF ok THEN Some("https://" \o host) ELSE None
    /\ pc' = "save"
    /\ UNCHANGED << iteration, summary, files, sandboxFs, stepVars,
                    isError, message, retval, calls >>

\* variant: the null of a failed resolution used as it is
UrlOrSentinel_NoFallback(u) == IF IsSet(u) THEN Val(u) ELSE "null"

\* sandboxUrl || "URL unavailable"
UrlOrSentinel(u) == IF IsSet(u) /\ Truthy(Val(u)) THEN Val(u) ELSE UrlUnavailable

\* variant: the RESULT message saved with the fixed text for content
SavedMessage_FixedContent(err, s, fs, u) ==
    IF err
    THEN Message("ERROR", FailureText, NoFragment)
    ELSE Message("RESULT", FailureText, Some(Fragment(UrlOrSentinel(u), fs)))

\* variant: the fragment created with the message of either type
SavedMessage_FragmentAlways(err, s, fs, u) ==
    Message(IF err THEN "ERROR" ELSE "RESULT",
            IF err THEN FailureText ELSE Val(s),
            Some(Fragment(UrlOrSentinel(u), fs)))

\* step save-result, lines 238-264
SavedMessage(err, s, fs, u) ==
    IF err
    THEN Message("ERROR", FailureText, NoFragment)
    ELSE Message("RESULT", Val(s), Some(Fragment(UrlOrSentinel(u), fs)))

SaveResult ==
    /\ pc = "save"
    /\ message' = Some(SavedMessage(Val(isError), summary, files, sandboxUrl))
    /\ pc' = "return"
    /\ UNCHANGED << iteration, summary, files, sandboxFs, stepVars,
                    isError, sandboxUrl, retval, calls >>

\* the return value, lines 266-271
ReturnValue(s, fs, u) ==
    [url |-> UrlOrSentinel(u), title |-> "fragment", files |-> fs, summary |-> s]

Return ==
    /\ pc = "return"
    /\ retval' = Some(ReturnValue(summary, files, sandboxUrl))
    /\ pc' = "end"
    /\ UNCHANGED << iteration, summary, files, sandboxFs, stepVars,
                    isError, sandboxUrl, message, calls >>

----------------------------------------------------------------------------
Next ==
    \/ Router
    \/ AgentStep
    \/ OnResponse
    \/ Terminal
    \/ CreateOrUpdateFiles
    \/ ReadFiles
    \/ ListFiles
    \/ AppendToolResult
    \/ StepEnd
    \/ Classify
    \/ GetSandboxUrl
    \/ SaveResult
    \/ Return

Spec == Init /\ [][Next]_vars

\* the run under the assumption that every await resolves: the agent
\* inference, each tool handler and each step.run return, so the function
\* takes its next step whenever it has one. The four handlers are enabled
\* together (ToolGuard) and disabled by a step of any of them, so fairness of
\* one handler excludes exactly the behaviours that wait forever with a tool
\* call pending.
SpecLive ==
    /\ Spec
    /\ WF_vars(Router) /\ WF_vars(AgentStep) /\ WF_vars(OnResponse)
    /\ WF_vars(ListFiles) /\ WF_vars(AppendToolResult) /\ WF_vars(StepEnd)
    /\ WF_vars(Classify) /\ WF_vars(GetSandboxUrl) /\ WF_vars(SaveResult)
    /\ WF_vars(Return)

----------------------------------------------------------------------------
(* Two createOrUpdateFiles calls of one agent step dispatched concurrently:  *)
(* the handler of lines 105-138 taken await by await, every sandbox          *)
(* operation succeeding. The two handlers interleave at their awaits.        *)

\* paths and batches of the concurrent calls
ConcPaths == {"a.txt", "b.txt"}
ConcBatches == SeqsUpTo([path : ConcPaths, content : Contents], MaxBatch)

\* AgentState.files when the step starts: unset, or populated by earlier calls
ConcInitFiles == { None, Some(EmptyMap), Some(Put(EmptyMap, "a.txt", "")) }

InitConc ==
    /\ pc = "tools"
    /\ iteration = 0
    /\ summary = None
    /\ files \in ConcInitFiles
    /\ sandboxFs = UpdatedFilesInit(files)
    /\ lastText = None
    /\ pending = Cardinality(Calls)
    /\ toolResult = NoResult
    /\ call = NoCall
    /\ isError = None
    /\ sandboxUrl = None
    /\ message = None
    /\ retval = None
    /\ calls = [c \in Calls |-> IdleCall]

concFrame == << pc, iteration, summary, lastText, toolResult, call, finalVars >>

\* the object updatedFiles of handler c refers to
UpdatedFilesOf(c) == IF calls[c].alias THEN Val(files) ELSE calls[c].own

\* the step callback starts: line 113, up to the await of getSandbox
CallBegin(c) ==
    /\ calls[c].pc = "idle"
    /\ \E batch \in ConcBatches :
          calls' = [calls EXCEPT ![c] =
                       [pc |-> "connecting", batch |-> batch, next |-> 1,
                        alias |-> IsSet(files),
                        \* the {} of line 113, used when files is unset
                        own |-> EmptyMap]]
    /\ UNCHANGED << files, sandboxFs, pending, concFrame >>

\* getSandbox resolves, line 114; an empty batch goes straight to the return
CallConnected(c) ==
    /\ calls[c].pc = "connecting"
    /\ calls' = [calls EXCEPT ![c].pc =
                    IF Len(calls[c].batch) = 0 THEN "returning" ELSE "writing"]
    /\ UNCHANGED << files, sandboxFs, pending, concFrame >>

\* sandbox.files.write is performed, line 117
CallWrite(c) ==
    /\ calls[c].pc = "writing"
    /\ LET f == calls[c].batch[calls[c].next]
       IN  sandboxFs' = Put(sandboxFs, f.path, f.content)
    /\ calls' = [calls EXCEPT ![c].pc = "written"]
    /\ UNCHANGED << files, pending, concFrame >>

\* the await of the write resumes: updatedFiles[file.path] = file.content,
\* line 118, and the loop goes on or the callback returns (line 121)
CallRecord(c) ==
    /\ calls[c].pc = "written"
    /\ LET f == calls[c].batch[calls[c].next]
           last == calls[c].next = Len(calls[c].batch)
       IN  /\ files' = IF calls[c].alias
                       THEN Some(Put(Val(files), f.path, f.content))
                       ELSE files
           /\ calls' = [calls EXCEPT
                 ![c].own = IF calls[c].alias THEN @ ELSE Put(@, f.path, f.content),
                 ![c].next = @ + 1,
                 ![c].pc = IF last THEN "returning" ELSE "writing"]
    /\ UNCHANGED << sandboxFs, pending, concFrame >>

\* step.run resolves with the object the callback returned; lines 129-137
CallMerge(c) ==
    /\ calls[c].pc = "returning"
    /\ files' = IF MergeCondition(UpdatedFilesOf(c))
                THEN Some(UpdatedFilesOf(c)) ELSE files
    /\ calls' = [calls EXCEPT ![c].pc = "done"]
    /\ pending' = pending - 1
    /\ UNCHANGED << sandboxFs, concFrame >>

NextConc ==
    \E c \in Calls :
       \/ CallBegin(c)
       \/ CallConnected(c)
       \/ CallWrite(c)
       \/ CallRecord(c)
       \/ CallMerge(c)

SpecConc == InitConc /\ [][NextConc]_vars

----------------------------------------------------------------------------
(* One createOrUpdateFiles call executed again by the step substrate: the   *)
(* handler of lines 105-138 is entered up to MaxRuns times with the same     *)
(* `files` argument, every sandbox operation succeeding. The first           *)
(* execution runs the step callback; a later one runs it again or is handed  *)
(* the result the substrate stored for the step.                             *)

\* AgentState.files when the call is first made
RetryInitFiles == { None, Some(EmptyMap), Some(Put(EmptyMap, "a.txt", "")),
                    Some(Put(EmptyMap, "error", "x")) }

\* the `files` argument of the call
RetryBatch == calls["c1"].batch

InitRetry ==
    /\ pc = "tools"
    /\ iteration = 0
    /\ summary = None
    /\ files \in RetryInitFiles
    /\ sandboxFs = UpdatedFilesInit(files)
    /\ lastText = None
    /\ pending = MaxRuns
    /\ toolResult = NoResult
    /\ call = NoCall
    /\ isError = None
    /\ sandboxUrl = None
    /\ message = None
    /\ retval = None
    /\ \E batch \in Batches :
          calls = [c \in Calls |->
                     IF c = "c1" THEN [IdleCall EXCEPT !.batch = batch]
                     ELSE IdleCall]

\* one execution of the call, all of its writes succeeding
Reexecute ==
    /\ ToolGuard
    /\ \E e \in Errs,
          memoized \in (IF pending = MaxRuns THEN {FALSE} ELSE BOOLEAN) :
          CreateOrUpdateFilesCall(RetryBatch, TRUE, 0, e, memoized)

NextRetry ==
    \/ Reexecute
    \/ AppendToolResult

SpecRetry == InitRetry /\ [][NextRetry]_vars

----------------------------------------------------------------------------
(* Properties *)

\* the step is the invocation of an Agent Step (codeAgent.run is entered)
AgentStepInvoked == pc = "agent" /\ pc' = "hook"

\* C1: once the summary is set, no further Agent Step is invoked, and the
\* summary is never cleared or replaced: it goes from unset to set at most
\* once in a run.
C1_SummarySetOnce ==
    [][ /\ IsSet(summary) => summary' = summary
        /\ IsSet(summary) => ~AgentStepInvoked /\ pc' \notin {"agent", "hook"}
      ]_vars

\* a run that ended because the summary was set, before the cap
C1_Witness ==
    /\ pc = "end"
    /\ IsSet(summary)
    /\ iteration < maxIter

\* C2: the iteration count is always between 0 and the cap (15), never
\* decreases, and is at most the cap at termination.
C2_IterationBounded ==
    [][ /\ iteration \in 0..maxIter
        /\ iteration' \in 0..maxIter
        /\ iteration' >= iteration
        /\ pc' \in {"done", "end"} => iteration' <= maxIter
      ]_vars

\* a run that was stopped by the cap alone
C2_Witness ==
    /\ pc = "end"
    /\ iteration = maxIter
    /\ ~IsSet(summary)


----------------------------------------------------------------------------
\* the step is a call of the handler of `tool`
ToolCalled(tool) ==
    pc = "tools" /\ pending' = pending - 1 /\ call'.tool = tool

\* s.startsWith(prefix)
StartsWith(s, prefix) ==
    Len(s) >= Len(prefix) /\ SubSeq(s, 1, Len(prefix)) = prefix

\* the map a batch describes on its own: for a repeated path the last entry
BatchMap(batch) == Writes(EmptyMap, batch, Len(batch))

\* AgentState.summary is unset; AgentState.files holds no entry
NoSummary == summary = None
NoFiles == FileKeys(files) = {}

\* C3: a createOrUpdateFiles call in which a sandbox write fails after earlier
\* writes of the batch succeeded leaves AgentState.files as it was before the
\* call, and its result carries an error field.
C3_PartialFailureLeavesFiles ==
    [][ (ToolCalled("createOrUpdateFiles") /\ call'.failed /\ call'.done >= 1)
        => (files' = files /\ HasErrorField(toolResult'))
      ]_vars

\* C4: a createOrUpdateFiles call whose writes all succeed leaves
\* AgentState.files mapping every path of the batch to its content of the
\* batch (last entry wins), and keeps every other entry as it was.
C4_SuccessfulBatchMerged ==
    [][ ToolCalled("createOrUpdateFiles") =>
        \A batch \in Batches, e \in Errs, memoized \in BOOLEAN :
           CreateOrUpdateFilesCall(batch, TRUE, 0, e, memoized)
           => /\ IsSet(files')
              /\ \A p \in DOMAIN BatchMap(batch) :
                    /\ p \in FileKeys(files')
                    /\ Val(files')[p] = BatchMap(batch)[p]
              /\ \A p \in FileKeys(files) \ DOMAIN BatchMap(batch) :
                    /\ p \in FileKeys(files')
                    /\ Val(files')[p] = Val(files)[p]
      ]_vars

\* C5: a run stopped by the cap with the summary never set has a result with
\* status error, the fixed failure message and no files, whatever
\* AgentState.files holds.
C5_CapResultIsEmptyError ==
    (pc = "end" /\ iteration = maxIter /\ NoSummary)
    => /\ Val(message).type = "ERROR"
       /\ Val(message).content = FailureText
       /\ Val(message).fragment = NoFragment
       /\ FileKeys(Val(retval).files) = {}

\* C6: when the final agent message contains "<task_summary>" and
\* AgentState.files is non-empty at termination, the result has status
\* success, its summary is that message's full text and its files are
\* AgentState.files.
C6_ResultOfCompletedRun ==
    (pc = "end" /\ ~NoSummary /\ ~NoFiles)
    => /\ Includes(Val(summary), Marker)
       /\ Val(message).type = "RESULT"
       /\ Val(message).content = Val(summary)
       /\ IsSet(Val(message).fragment)
       /\ Val(Val(message).fragment).files = files
       /\ Val(retval).summary = summary
       /\ Val(retval).files = files

C6_SummaryIsFinalMessage ==
    (pc = "hook" /\ IsSet(lastText) /\ Includes(Val(lastText), Marker))
    => /\ summary' = lastText
       /\ Val(summary') \in Texts

C6_CompletedRunSucceeds ==
    [] C6_ResultOfCompletedRun /\ [][C6_SummaryIsFinalMessage]_vars

C6_Witness ==
    /\ pc = "end"
    /\ ~NoSummary /\ ~NoFiles
    /\ Val(message).type = "RESULT"

\* C7: the finalizer classifies the run as error exactly when the summary is
\* unset or AgentState.files is empty.
C7_ErrorIffNoSummaryOrNoFiles ==
    /\ IsSet(isError) => (Val(isError) <=> (NoSummary \/ NoFiles))
    /\ IsSet(message) => /\ Val(message).type \in {"ERROR", "RESULT"}
                         /\ Val(message).type = "ERROR" <=> (NoSummary \/ NoFiles)

\* a run with a summary that never wrote a file is classified as error
C7_Witness ==
    /\ pc = "end"
    /\ ~NoSummary /\ NoFiles
    /\ Val(isError)
    /\ Val(message).type = "ERROR"


\* the loop has ended (DONE) or the function is past it
LoopOver == pc \in {"done", "url", "save", "return", "end"}

\* the error forms of a tool result r
IsErrorString(r) == r.kind = "string" /\ StartsWith(r.str, "Command failed: ")
HasErrorWith(r, prefix) == HasErrorField(r) /\ StartsWith(r.obj["error"], prefix)

C10_UrlFailureDegrades ==
    (pc \in {"return", "end"} /\ sandboxUrl = None)
    => /\ IsSet(message)
       /\ Val(message).type = "ERROR" <=> (NoSummary \/ NoFiles)
       /\ IsSet(Val(message).fragment)
             => Val(Val(message).fragment).sandboxUrl = UrlUnavailable
       /\ pc = "end" => IsSet(retval) /\ Val(retval).url = UrlUnavailable

\* a successful run whose host resolution failed
C10_Witness ==
    /\ pc = "end"
    /\ sandboxUrl = None
    /\ Val(message).type = "RESULT"
    /\ Val(Val(message).fragment).sandboxUrl = UrlUnavailable


\* the paths handler c was asked to write
PathsOf(c) == {calls[c].batch[i].path : i \in 1..Len(calls[c].batch)}
BothDone == \A c \in Calls : calls[c].pc = "done"

\* C8: after two concurrently dispatched createOrUpdateFiles calls whose
\* writes all succeeded, AgentState.files holds an entry for every path written
\* by either call, for every interleaving and whether AgentState.files was
\* unset or populated before.
C8_NoLostUpdate ==
    BothDone => \A c \in Calls : PathsOf(c) \subseteq FileKeys(files)

----------------------------------------------------------------------------
\* C11: a readFiles call whose connection succeeds and some of whose reads
\* fail returns a map with exactly one entry per requested path; a path whose
\* read succeeded maps to the content the sandbox holds, a path whose read
\* failed maps to an error string (for a path named twice the last read
\* decides), the paths after a failed one are read all the same, and the
\* handler returns to the agent run.
C11_ReadFilesPartialFailure ==
    (call.tool = "readFiles" /\ call.connected /\ call.failed)
    => /\ pc = "tools"
       /\ toolResult.kind = "object"
       /\ DOMAIN toolResult.obj = call.asked
       /\ \A p \in call.asked \ call.unread :
             /\ p \in DOMAIN sandboxFs
             /\ toolResult.obj[p] = sandboxFs[p]
       /\ \A p \in call.unread :
             StartsWith(toolResult.obj[p], "Error reading file: ")

\* one path read and one path unreadable in the same call
C11_Witness ==
    /\ call.tool = "readFiles" /\ call.connected /\ call.failed
    /\ Cardinality(call.asked) = 2
    /\ Cardinality(call.unread) = 1
    /\ \E p \in call.asked \ call.unread : toolResult.obj[p] = "x"

\* C12: the router moves from RUNNING to DONE only when the summary is set or
\* the iteration count has reached the cap; a set summary always stops the
\* loop, reaching DONE leaves the summary as it is (unset when the cap alone
\* stopped the loop), and in every DONE state the summary is set or the
\* iteration count equals the cap.
C12_DoneOnlyBySummaryOrCap ==
    [][ /\ (pc = "router" /\ pc' = "done")
            => /\ IsSet(summary) \/ iteration = maxIter
               /\ summary' = summary
               /\ iteration' = iteration
        /\ (pc = "router" /\ IsSet(summary)) => pc' = "done"
        /\ pc' = "done" => (IsSet(summary') \/ iteration' = maxIter)
      ]_vars

\* DONE reached through the cap alone
C12_Witness ==
    /\ pc = "done"
    /\ ~IsSet(summary)
    /\ iteration = maxIter

\* the function is in its finalization (lines 223-271) or has returned
Finalizing == pc \in {"url", "save", "return", "end"}

\* C13: whatever the agent answers and whatever the sandbox does, as long as
\* every agent step and tool call returns, the run reaches DONE and is then
\* finalized exactly once: the function returns with one message saved and
\* one return value, and neither the loop nor the classification, the save
\* or the return is ever taken again.
C13_EventuallyFinalizedOnce ==
    /\ <>(pc = "end" /\ IsSet(isError) /\ IsSet(message) /\ IsSet(retval))
    /\ [][ /\ Finalizing' => (Finalizing \/ pc = "done")
           /\ IsSet(isError) => isError' = isError
           /\ IsSet(message) => message' = message
           /\ IsSet(retval) => retval' = retval
           /\ Finalizing => Finalizing'
           /\ pc = "end" => pc' = "end"
         ]_vars

\* a run finalized although the agent never emitted the marker, no file was
\* written and the host could not be resolved
C13_Witness ==
    /\ pc = "end"
    /\ iteration = maxIter
    /\ summary = None /\ files = None /\ sandboxUrl = None
    /\ IsSet(message) /\ IsSet(retval)

\* no tool call of the current agent step is outstanding: every requested
\* handler has run, its result has been taken, and the sandbox holds every
\* file AgentState.files names
Resolved ==
    /\ pending = 0
    /\ call = NoCall
    /\ toolResult = NoResult
    /\ FileKeys(files) \subseteq DOMAIN sandboxFs

\* C14: a tool handler requested by an Agent Step has completed, with its
\* sandbox I/O and its update of AgentState, before the iteration count
\* advances and before the next Agent Step is invoked: whenever the router is
\* asked or an Agent Step starts, no tool result is outstanding.
C14_HandlersCompleteBeforeNextStep ==
    pc \in {"router", "agent"} => Resolved

\* an Agent Step about to start after a step whose handler wrote files
C14_Witness ==
    /\ pc = "agent"
    /\ iteration >= 1
    /\ FileKeys(files) # {}
    /\ Resolved

\* the texts of the model that contain the literal "<task_summary>"
MarkerTexts == {"<task_summary>ok</task_summary>", "v2 <task_summary>"}

\* C15: the completion hook sets the summary exactly when the step's last
\* assistant text contains the literal "<task_summary>", and then to the full
\* text; a step whose last text lacks the marker, or that has no text, leaves
\* the summary as it was, and nothing but the hook changes the summary.
C15_SummaryByMarker ==
    [][ /\ pc = "hook" =>
              IF IsSet(lastText) /\ Val(lastText) \in MarkerTexts
              THEN summary' = lastText
              ELSE summary' = summary
        /\ summary' # summary => pc = "hook"
      ]_vars

\* the marker found inside the text of a step that followed steps without it
C15_Witness ==
    /\ pc = "tools"
    /\ iteration >= 1
    /\ summary = Some("v2 <task_summary>")

\* C16: over the tool calls of a run, one after the other and whether they
\* succeed, fail or fail part-way, AgentState.files never loses a key and
\* never becomes unset again, and the content under a key changes only in a
\* createOrUpdateFiles call that wrote that content to that path in the
\* sandbox.
C16_FilesKeysOnlyGrow ==
    [][ /\ IsSet(files) => IsSet(files')
        /\ \A p \in FileKeys(files) :
              /\ p \in FileKeys(files')
              /\ Val(files')[p] # Val(files)[p]
                    => /\ ToolCalled("createOrUpdateFiles")
                       /\ call'.connected /\ call'.done >= 1
                       /\ p \in DOMAIN sandboxFs'
                       /\ sandboxFs'[p] = Val(files')[p]
      ]_vars

\* both paths are held after a call that failed part-way
C16_Witness ==
    /\ call.tool = "createOrUpdateFiles"
    /\ call.failed /\ call.done >= 1
    /\ Cardinality(FileKeys(files)) = 2

\* the result of the last createOrUpdateFiles call has an error field and
\* AgentState.files is not the returned object
TreatedAsError ==
    /\ HasErrorField(toolResult)
    /\ files # Some(toolResult.obj)

\* C17: the result of a createOrUpdateFiles call carries an error field and is
\* not merged into AgentState.files if and only if a sandbox operation of the
\* call failed, whatever the path strings of the batch are.
C17_ErrorIffOperationFailed ==
    call.tool = "createOrUpdateFiles" => (TreatedAsError <=> call.failed)

\* C18: a terminal, readFiles or listFiles call, succeeding or failing, leaves
\* AgentState.files and AgentState.summary as they were; files is changed by
\* createOrUpdateFiles calls only and summary by the completion hook only.
C18_ReadOnlyToolsKeepState ==
    [][ /\ ( \/ ToolCalled("terminal")
             \/ ToolCalled("readFiles")
             \/ ToolCalled("listFiles") )
            => (files' = files /\ summary' = summary)
        /\ files' # files => ToolCalled("createOrUpdateFiles")
        /\ summary' # summary => (pc = "hook" /\ pc' = "tools")
        /\ ToolCalled("createOrUpdateFiles") => summary' = summary
      ]_vars

\* listFiles has listed the sandbox of a run that holds files
C18_Witness ==
    /\ call.tool = "listFiles"
    /\ ~call.failed
    /\ toolResult.kind = "array"
    /\ toolResult.names = DOMAIN sandboxFs
    /\ FileKeys(files) # {}

\* the message the run has saved is the one its classification calls for
MessageAsClassified ==
    IF Val(isError)
    THEN /\ Val(message).type = "ERROR"
         /\ Val(message).content = FailureText
         /\ Val(message).fragment = NoFragment
    ELSE /\ Val(message).type = "RESULT"
         /\ IsSet(summary) /\ Val(message).content = Val(summary)
         /\ IsSet(Val(message).fragment)
         /\ Val(Val(message).fragment).files = files
         /\ Val(Val(message).fragment).sandboxUrl =
               (IF sandboxUrl = None THEN UrlUnavailable ELSE Val(sandboxUrl))

\* C19: a run saves exactly one assistant message: none before the save-result
\* step, one from then on and never another; it is of type ERROR with the
\* fixed text and no fragment when the run was classified as error, and
\* otherwise of type RESULT with the summary as content and a fragment holding
\* AgentState.files and the sandbox URL or "URL unavailable".
C19_OneMessagePerRun ==
    /\ [] ( /\ IsSet(message) <=> pc \in {"return", "end"}
            /\ IsSet(message) => (IsSet(isError) /\ MessageAsClassified) )
    /\ [][ IsSet(message) => message' = message ]_vars

\* an error run that holds files: its message has no fragment
C19_Witness ==
    /\ pc = "end"
    /\ Val(isError)
    /\ FileKeys(files) # {}
    /\ Val(message).type = "ERROR"
    /\ Val(message).fragment = NoFragment

\* C20: executing a createOrUpdateFiles call again with the same batch, all
\* writes succeeding, leaves AgentState.files as the execution before left
\* it: the state after two executions is the state after one.
C20_ReexecutionIdempotent ==
    [][ (ToolCalled("createOrUpdateFiles") /\ pending < MaxRuns)
        => files' = files
      ]_vars

\* a batch of two entries executed a second time onto a map it extended
C20_Witness ==
    /\ pending = 0
    /\ call.tool = "createOrUpdateFiles"
    /\ Len(RetryBatch) = 2
    /\ Cardinality(FileKeys(files)) = 2

====
